---- MODULE Spec2Model ----
(***************************************************************************)
(* kondo-lib: discovery of project directories (scan), the size queries   *)
(* (dir_size, Project::size, Project::size_dirs) and the reclamation of   *)
(* artifact directories (Project::clean, clean).                          *)
(*                                                                         *)
(* Two specifications share the module:                                    *)
(*   SpecScan   a directory tree walked by scan() and consumed to its end  *)
(*   SpecClean  one project on a disk, sized and cleaned                   *)
(***************************************************************************)
EXTENDS Integers, Sequences, FiniteSets, TLC

VARIABLES
    tree,       \* SpecScan: the directory tree under the scan root, in listing order
    pos,        \* ProjectIter.it2: how many entries the jwalk iterator has yielded
    success,    \* MultiError.success
    errs,       \* MultiError.errs
    ended,      \* the consumer saw next() return None
    log,        \* one record per return of ProjectIter::next: the directory it was at
    disk,       \* SpecClean: path -> node of the file system
    project,    \* the Project the size and clean operations act on
    op,         \* the operation that returned last
    res,        \* its return value
    pre,        \* the disk when that operation was called
    attempts,   \* the paths fs::remove_dir_all was called on in the last clean
    stderr,     \* the paths the last clean reported with eprintln!
    cleanRun    \* how the most recent Project::clean went: "none", "ok", "failed"

vars == <<tree, pos, success, errs, ended, log,
          disk, project, op, res, pre, attempts, stderr, cleanRun>>

scanVars == <<tree, pos, success, errs, ended, log>>
cleanVars == <<disk, project, op, res, pre, attempts, stderr, cleanRun>>

(***************************************************************************)
(* Bounds of the model.                                                    *)
(***************************************************************************)
MaxNodes == 4   \* entries below the scan root
MaxDepth == 1   \* nesting of directories inside an artifact directory

(***************************************************************************)
(* Names.  A name is a string; Chars gives its characters, which is what   *)
(* starts_with and ends_with look at.                                      *)
(***************************************************************************)
SYMLINK_FOLLOW == TRUE

FILE_CARGO_TOML == "Cargo.toml"
FILE_PACKAGE_JSON == "package.json"
FILE_ASSEMBLY_CSHARP == "Assembly-CSharp.csproj"
FILE_STACK_HASKELL == "stack.yaml"
FILE_SBT_BUILD == "build.sbt"
FILE_MVN_BUILD == "pom.xml"
FILE_CMAKE_BUILD == "CMakeLists.txt"
FILE_UNREAL_SUFFIX == ".uproject"
FILE_JUPYTER_SUFFIX == ".ipynb"
FILE_PYTHON_SUFFIX == ".py"
FILE_COMPOSER_JSON == "composer.json"

Chars(s) ==
    CASE s = "a" -> <<"a">>
      [] s = "b" -> <<"b">>
      [] s = "e" -> <<"e">>
      [] s = "f" -> <<"f">>
      [] s = "l" -> <<"l">>
      [] s = "p" -> <<"p">>
      [] s = "s" -> <<"s">>
      [] s = ".h" -> <<".", "h">>
      [] s = "m.py" -> <<"m", ".", "p", "y">>
      [] s = "README" -> <<"R", "E", "A", "D", "M", "E">>
      [] s = "repoA" -> <<"r", "e", "p", "o", "A">>
      [] s = "ext" -> <<"e", "x", "t">>
      [] s = "src" -> <<"s", "r", "c">>
      [] s = "sub" -> <<"s", "u", "b">>
      [] s = "lnk" -> <<"l", "n", "k">>
      [] s = "target" -> <<"t", "a", "r", "g", "e", "t">>
      [] s = "project" -> <<"p", "r", "o", "j", "e", "c", "t">>
      [] s = "node_modules" ->
            <<"n", "o", "d", "e", "_", "m", "o", "d", "u", "l", "e", "s">>
      [] s = ".py" -> <<".", "p", "y">>
      [] s = ".ipynb" -> <<".", "i", "p", "y", "n", "b">>
      [] s = ".uproject" -> <<".", "u", "p", "r", "o", "j", "e", "c", "t">>
      [] s = "pom.xml" -> <<"p", "o", "m", ".", "x", "m", "l">>
      [] s = "build.sbt" -> <<"b", "u", "i", "l", "d", ".", "s", "b", "t">>
      [] s = "Cargo.toml" -> <<"C", "a", "r", "g", "o", ".", "t", "o", "m", "l">>
      [] s = "package.json" ->
            <<"p", "a", "c", "k", "a", "g", "e", ".", "j", "s", "o", "n">>

starts_with(s, c) ==
    LET cs == Chars(s) IN Len(cs) >= 1 /\ cs[1] = c

ends_with(s, suffix) ==
    LET cs == Chars(s)
        sf == Chars(suffix)
    IN  /\ Len(cs) >= Len(sf)
        /\ SubSeq(cs, Len(cs) - Len(sf) + 1, Len(cs)) = sf

(***************************************************************************)
(* ProjectType and the classifier.                                         *)
(***************************************************************************)
ProjectType ==
    {"Cargo", "Node", "Unity", "Stack", "SBT", "Maven", "CMake", "Unreal",
     "Jupyter", "Python", "Composer"}

None == "None"

\* The match arms are tried in order: the exact names, then the suffixes.
get_project_type(file_name) ==
    IF file_name = FILE_CARGO_TOML THEN "Cargo"
    ELSE IF file_name = FILE_PACKAGE_JSON THEN "Node"
    ELSE IF file_name = FILE_ASSEMBLY_CSHARP THEN "Unity"
    ELSE IF file_name = FILE_STACK_HASKELL THEN "Stack"
    ELSE IF file_name = FILE_SBT_BUILD THEN "SBT"
    ELSE IF file_name = FILE_MVN_BUILD THEN "Maven"
    ELSE IF file_name = FILE_CMAKE_BUILD THEN "CMake"
    ELSE IF file_name = FILE_COMPOSER_JSON THEN "Composer"
    ELSE IF ends_with(file_name, FILE_UNREAL_SUFFIX) THEN "Unreal"
    ELSE IF ends_with(file_name, FILE_JUPYTER_SUFFIX) THEN "Jupyter"
    ELSE IF ends_with(file_name, FILE_PYTHON_SUFFIX) THEN "Python"
    ELSE None

\* An artifact-directory name is a relative path: the sequence of its
\* components ("project/target" is <<"project", "target">>).
PROJECT_CARGO_DIRS == << <<"target">> >>
PROJECT_NODE_DIRS == << <<"node_modules">> >>
PROJECT_UNITY_DIRS ==
    << <<"Library">>, <<"Temp">>, <<"Obj">>, <<"Logs">>, <<"MemoryCaptures">>,
       <<"Build">>, <<"Builds">> >>
PROJECT_STACK_DIRS == << <<".stack-work">> >>
PROJECT_SBT_DIRS == << <<"target">>, <<"project", "target">> >>
PROJECT_MVN_DIRS == << <<"target">> >>
PROJECT_CMAKE_DIRS == << <<"build">> >>
PROJECT_UNREAL_DIRS ==
    << <<"Binaries">>, <<"Build">>, <<"Saved">>, <<"DerivedDataCache">>,
       <<"Intermediate">> >>
PROJECT_JUPYTER_DIRS == << <<".ipynb_checkpoints">> >>
PROJECT_PYTHON_DIRS == << <<"__pycache__">>, <<"__pypackages__">>, <<".venv">> >>
PROJECT_COMPOSER_DIRS == << <<"vendor">> >>

artifact_dirs(project_type) ==
    CASE project_type = "Cargo" -> PROJECT_CARGO_DIRS
      [] project_type = "Node" -> PROJECT_NODE_DIRS
      [] project_type = "Unity" -> PROJECT_UNITY_DIRS
      [] project_type = "Stack" -> PROJECT_STACK_DIRS
      [] project_type = "SBT" -> PROJECT_SBT_DIRS
      [] project_type = "Maven" -> PROJECT_MVN_DIRS
      [] project_type = "Unreal" -> PROJECT_UNREAL_DIRS
      [] project_type = "Jupyter" -> PROJECT_JUPYTER_DIRS
      [] project_type = "Python" -> PROJECT_PYTHON_DIRS
      [] project_type = "CMake" -> PROJECT_CMAKE_DIRS
      [] project_type = "Composer" -> PROJECT_COMPOSER_DIRS

Project(ty, path) == [project_type |-> ty, path |-> path]

NoProject == [project_type |-> None, path |-> <<>>]

Range(s) == {s[i] : i \in 1..Len(s)}

(***************************************************************************)
(* SpecScan: the tree under the scan root.                                 *)
(*                                                                         *)
(* tree[1] is the scan root; tree[i].parent < i is the directory holding   *)
(* entry i.  The entries are numbered in the order the walk lists them     *)
(* (a directory, then its entries, depth first), so every listing order of *)
(* every tree shape is one value of tree.                                  *)
(*   kind      "dir", "file", or "badlink" (a symbolic link to nothing)    *)
(*   readable  a directory that fs::read_dir can open                      *)
(***************************************************************************)
DirNames == {"a", "b", ".h", "pom.xml"}
FileNames == {"Cargo.toml", "package.json", "m.py", "README"}

Shapes ==
    {[name |-> n, kind |-> "dir", readable |-> r] : n \in DirNames, r \in BOOLEAN}
    \cup {[name |-> n, kind |-> "file", readable |-> FALSE] : n \in FileNames}
    \cup {[name |-> "l", kind |-> "badlink", readable |-> FALSE]}

RootShapes ==
    {[name |-> n, kind |-> "dir", readable |-> r] : n \in {"a", ".h"}, r \in BOOLEAN}

RECURSIVE AncOrSelf(_, _)
\* The entry i of tree t and the directories above it.
AncOrSelf(t, i) ==
    IF i = 0 THEN {} ELSE {i} \cup AncOrSelf(t, t[i].parent)

Node(parent, sh) ==
    [parent |-> parent, name |-> sh.name, kind |-> sh.kind, readable |-> sh.readable]

\* The trees of one more entry than t: the new entry comes last in the
\* listing, so it goes into the directory of the last entry or into one above
\* it, under a name that directory does not hold yet.
Grow(t) ==
    {Append(t, Node(x[1], x[2])) :
        x \in {y \in {a \in AncOrSelf(t, Len(t)) : t[a].kind = "dir"} \X Shapes :
                  \A k \in 1..Len(t) :
                      ~(t[k].parent = y[1] /\ t[k].name = y[2].name)}}

ChildrenOf(t, d) == {i \in 1..Len(t) : t[i].parent = d}

RECURSIVE PathOf(_, _)
PathOf(t, i) ==
    IF t[i].parent = 0 THEN <<t[i].name>>
    ELSE Append(PathOf(t, t[i].parent), t[i].name)

StrictlyBelow(t, i, d) == i # d /\ d \in AncOrSelf(t, i)

is_hidden(name) == starts_with(name, ".")

\* The process_read_dir callback of scan: whether the walk reads the children
\* of entry i of a listing.
ReadsChildren(t, i) ==
    /\ t[i].kind = "dir"
    /\ get_project_type(t[i].name) = None

RECURSIVE Yielded(_, _)
\* Whether the jwalk iterator of scan yields entry i: the root always; below
\* it the entries of the directories it reads, the hidden ones left out
\* (skip_hidden), a link to nothing yielded as an error.
Yielded(t, i) ==
    \/ i = 1
    \/ /\ i > 1
       /\ Yielded(t, t[i].parent)
       /\ t[t[i].parent].readable
       /\ (t[i].parent = 1 \/ ReadsChildren(t, t[i].parent))
       /\ (t[i].kind = "badlink" \/ ~is_hidden(t[i].name))

\* The entries of the walk, in the order it yields them.
Walk(t) ==
    SelectSeq([i \in 1..Len(t) |-> i], LAMBDA i : Yielded(t, i))

\* The projects next() builds from the listing of directory d: one for every
\* entry whose name the classifier knows, with that entry's path.
Matches(t, d) ==
    {Project(get_project_type(t[c].name), PathOf(t, c)) :
        c \in {k \in ChildrenOf(t, d) : get_project_type(t[k].name) # None}}

RECURSIVE IterNext(_, _)
\* ProjectIter::next from position p: the set of its possible returns, each
\* with the position it leaves the iterator at and the entry it returned at.
IterNext(t, p) ==
    LET w == Walk(t) IN
    IF p >= Len(w)
    THEN {[ret |-> "None", pos |-> p, node |-> 0, project |-> NoProject]}
    ELSE LET e == w[p + 1] IN
         IF t[e].kind = "badlink"
         THEN {[ret |-> "WalkdirError", pos |-> p + 1, node |-> e, project |-> NoProject]}
         ELSE IF t[e].kind # "dir"
         THEN IterNext(t, p + 1)
         ELSE IF is_hidden(t[e].name)
         THEN IterNext(t, p + 1)
         ELSE IF ~t[e].readable
         THEN {[ret |-> "IOError", pos |-> p + 1, node |-> e, project |-> NoProject]}
         ELSE IF Matches(t, e) = {}
         THEN {[ret |-> "None", pos |-> p + 1, node |-> e, project |-> NoProject]}
         ELSE {[ret |-> "Ok", pos |-> p + 1, node |-> e, project |-> m] :
                  m \in Matches(t, e)}

CleanIdle ==
    /\ disk = <<>>
    /\ project = NoProject
    /\ op = "none"
    /\ res = None
    /\ pre = <<>>
    /\ attempts = <<>>
    /\ stderr = <<>>
    /\ cleanRun = "none"

\* scan(p) over a root directory: a fresh iterator, nothing consumed yet.
InitScan ==
    /\ tree \in {<<Node(0, sh)>> : sh \in RootShapes}
    /\ pos = 0
    /\ success = <<>>
    /\ errs = <<>>
    /\ ended = FALSE
    /\ log = <<>>
    /\ CleanIdle

\* The file system under the root before the scan reads it: one more entry.
\* Nothing changes the tree once next() has been called.
Populate ==
    /\ log = <<>>
    /\ Len(tree) <= MaxNodes
    /\ tree' \in Grow(tree)
    /\ UNCHANGED <<pos, success, errs, ended, log>>
    /\ UNCHANGED cleanVars

\* One step of MultiError::from_iter over scan(p): call next(), file the item.
FromIterStep ==
    /\ ~ended
    /\ \E r \in IterNext(tree, pos) :
          /\ pos' = r.pos
          /\ log' = Append(log, [node |-> r.node, ret |-> r.ret, project |-> r.project])
          /\ ended' = (r.ret = "None")
          /\ success' = IF r.ret = "Ok" THEN Append(success, r.project) ELSE success
          /\ errs' = IF r.ret \in {"IOError", "WalkdirError"}
                     THEN Append(errs, r.ret) ELSE errs
    /\ UNCHANGED <<tree>>
    /\ UNCHANGED cleanVars

NextScan == Populate \/ FromIterStep

SpecScan == InitScan /\ [][NextScan]_vars

(***************************************************************************)
(* SpecClean: one project on a disk.                                       *)
(*                                                                         *)
(* disk maps the path of every entry (the sequence of its components) to   *)
(* its node:                                                               *)
(*   kind    "dir", "file" or "symlink"                                    *)
(*   size    metadata().len() of a file                                    *)
(*   target  the path a symbolic link names                                *)
(*   locked  removing the entry fails (no permission, in use)              *)
(* Symbolic links sit only at the last component of a path in this model.  *)
(***************************************************************************)
DirNode == [kind |-> "dir", size |-> 0, target |-> <<>>, locked |-> FALSE]
FileNode(n, l) == [kind |-> "file", size |-> n, target |-> <<>>, locked |-> l]
LinkNode(t) == [kind |-> "symlink", size |-> 0, target |-> t, locked |-> FALSE]

NoPath == <<>>
NoEntries == [q \in {} |-> DirNode]

Last(p) == p[Len(p)]
IsPrefix(p, q) == Len(p) <= Len(q) /\ SubSeq(q, 1, Len(p)) = p
Subtree(d, p) == {q \in DOMAIN d : IsPrefix(p, q)}
Below(d, p) == Subtree(d, p) \ {p}
Without(d, gone) == [q \in DOMAIN d \ gone |-> d[q]]

\* fs::read_dir: the entries of directory p.
Entries(d, p) == {q \in DOMAIN d : Len(q) = Len(p) + 1 /\ IsPrefix(p, q)}

RECURSIVE Follow(_, _, _)
Follow(d, p, hops) ==
    IF p \notin DOMAIN d THEN NoPath
    ELSE IF d[p].kind # "symlink" THEN p
    ELSE IF hops = 0 THEN NoPath
    ELSE Follow(d, d[p].target, hops - 1)

\* What a path names once the links are followed (fs::metadata), or NoPath.
Resolve(d, p) == Follow(d, p, Cardinality(DOMAIN d))

\* Path::exists
exists(d, p) == Resolve(d, p) # NoPath

RECURSIVE WalkSum(_, _)
\* The walk of dir_size over the entries still to yield, links followed:
\* the sum of the lengths of the regular files.  An entry is the path it was
\* reached by, the place it is at, and the directories above it (a link back
\* to one of them is an error entry, filtered out).
WalkSum(d, todo) ==
    IF todo = {} THEN 0
    ELSE LET e == CHOOSE x \in todo : TRUE
             r == IF SYMLINK_FOLLOW THEN Resolve(d, e.at)
                  ELSE IF e.at \in DOMAIN d /\ d[e.at].kind # "symlink" THEN e.at
                  ELSE NoPath
             len == IF r # NoPath /\ d[r].kind = "file" THEN d[r].size ELSE 0
             more == IF r # NoPath /\ d[r].kind = "dir" /\ r \notin e.anc
                     THEN {[via |-> Append(e.via, Last(c)), at |-> c,
                            anc |-> e.anc \cup {r}] : c \in Entries(d, r)}
                     ELSE {}
         IN  len + WalkSum(d, (todo \ {e}) \cup more)

RECURSIVE SumLens(_, _)
\* The lengths of the regular files among the paths S, added up.
SumLens(d, S) ==
    IF S = {} THEN 0
    ELSE LET q == CHOOSE x \in S : TRUE IN
         (IF d[q].kind = "file" THEN d[q].size ELSE 0) + SumLens(d, S \ {q})

\* dir_size without the descent: only the files directly in the directory.
dir_size_no_descent(d, path) ==
    LET r == Resolve(d, path) IN
    IF r = NoPath THEN 0
    ELSE IF d[r].kind = "file" THEN d[r].size
    ELSE SumLens(d, Entries(d, r))

dir_size(d, path) == WalkSum(d, {[via |-> path, at |-> path, anc |-> {}]})

RECURSIVE SumSizes(_, _, _)
SumSizes(d, root, ads) ==
    IF ads = <<>> THEN 0
    ELSE dir_size(d, root \o Head(ads)) + SumSizes(d, root, Tail(ads))

\* Project::size
size(d, p) == SumSizes(d, p.path, artifact_dirs(p.project_type))

ProjectSize(a, n, dirs) == [artifact_size |-> a, non_artifact_size |-> n, dirs |-> dirs]

\* artifact_dirs().contains(&file_name)
contains(ads, file_name) == \E i \in 1..Len(ads) : ads[i] = <<file_name>>

RECURSIVE size_dirs_loop(_, _, _, _)
\* The for loop of size_dirs over the listing, in the order it comes.
size_dirs_loop(d, p, listing, acc) ==
    IF listing = <<>> THEN acc
    ELSE LET entry == Head(listing)
             rest == Tail(listing)
         IN  IF d[entry].kind = "file"
             THEN size_dirs_loop(d, p, rest,
                      ProjectSize(acc.artifact_size,
                                  acc.non_artifact_size + d[entry].size, acc.dirs))
             ELSE IF d[entry].kind = "dir"
             THEN LET file_name == Last(entry)
                      sz == dir_size(d, entry)
                      artifact_dir == contains(artifact_dirs(p.project_type), file_name)
                  IN  size_dirs_loop(d, p, rest,
                          ProjectSize(
                              IF artifact_dir THEN acc.artifact_size + sz
                                              ELSE acc.artifact_size,
                              IF artifact_dir THEN acc.non_artifact_size
                                              ELSE acc.non_artifact_size + sz,
                              Append(acc.dirs, <<file_name, sz, artifact_dir>>)))
             ELSE size_dirs_loop(d, p, rest, acc)

\* Whether fs::read_dir(path) opens a directory.
read_dir_ok(d, path) == exists(d, path) /\ d[Resolve(d, path)].kind = "dir"

\* Project::size_dirs, the listing of the root given.
size_dirs(d, p, listing) ==
    IF ~read_dir_ok(d, p.path) THEN ProjectSize(0, 0, <<>>)
    ELSE size_dirs_loop(d, p, listing, ProjectSize(0, 0, <<>>))

RECURSIVE Orders(_)
\* The orders the elements of S may come in.
Orders(S) ==
    IF S = {} THEN {<<>>}
    ELSE UNION {{<<x>> \o o : o \in Orders(S \ {x})} : x \in S}

\* The orders fs::read_dir may list directory p in.  The entries that are not
\* directories add to one sum wherever they come, so they are put first and
\* only the order of the directories is varied.
Listings(d, p) ==
    LET dirs == {e \in Entries(d, p) : d[e].kind = "dir"}
        others == CHOOSE o \in Orders(Entries(d, p) \ dirs) : TRUE
    IN  {others \o o : o \in Orders(dirs)}

\* The entries a failed removal of directory p may have removed before it
\* stopped at the locked entry l: what is below l, and whole subtrees beside
\* the way from p down to l.
RemovedBefore(d, p, l) ==
    LET beside == {c \in Below(d, p) :
                      /\ ~IsPrefix(c, l)
                      /\ IsPrefix(SubSeq(c, 1, Len(c) - 1), l)
                      /\ \A q \in Subtree(d, c) : ~d[q].locked}
    IN  {Below(d, l) \cup UNION {Subtree(d, c) : c \in C} : C \in SUBSET beside}

\* remove_dir_all that follows a link and empties the directory it names.
remove_dir_all_following_links(d, p) ==
    IF p \notin DOMAIN d THEN {[disk |-> d, ok |-> FALSE]}
    ELSE IF d[p].kind = "file" THEN {[disk |-> d, ok |-> FALSE]}
    ELSE LET r == Resolve(d, p) IN
         {[disk |-> Without(d, {p} \cup (IF r = NoPath THEN {} ELSE Subtree(d, r))),
           ok |-> TRUE]}

\* fs::remove_dir_all(p): every outcome it may have.  A link is unlinked, not
\* followed; a regular file is not a directory; a directory goes entry by
\* entry, in listing order, up to the first entry that cannot be removed.
remove_dir_all(d, p) ==
    IF p \notin DOMAIN d THEN {[disk |-> d, ok |-> FALSE]}
    ELSE IF d[p].kind = "symlink"
    THEN IF d[p].locked THEN {[disk |-> d, ok |-> FALSE]}
         ELSE {[disk |-> Without(d, {p}), ok |-> TRUE]}
    ELSE IF d[p].kind = "file" THEN {[disk |-> d, ok |-> FALSE]}
    ELSE LET stuck == {l \in Subtree(d, p) : d[l].locked}
             first == {l \in stuck : \A q \in Below(d, l) : q \notin stuck}
         IN  IF stuck = {}
             THEN {[disk |-> Without(d, Subtree(d, p)), ok |-> TRUE]}
             ELSE {[disk |-> Without(d, gone), ok |-> FALSE] :
                      gone \in UNION {RemovedBefore(d, p, l) : l \in first}}

\* A removal attempted at path ad, from state st of a clean: the states after.
Attempt(st, ad) ==
    {[disk |-> o.disk,
      attempts |-> Append(st.attempts, ad),
      stderr |-> IF o.ok THEN st.stderr ELSE Append(st.stderr, ad)] :
        o \in remove_dir_all(st.disk, ad)}

RECURSIVE clean_loop_until_error(_, _, _)
\* The loop with the failure returned instead of reported and passed over.
clean_loop_until_error(st, root, ads) ==
    IF ads = <<>> THEN {st}
    ELSE LET ad == root \o Head(ads) IN
         IF exists(st.disk, ad)
         THEN UNION {IF Len(n.stderr) > Len(st.stderr) THEN {n}
                     ELSE clean_loop_until_error(n, root, Tail(ads)) :
                        n \in Attempt(st, ad)}
         ELSE clean_loop_until_error(st, root, Tail(ads))

RECURSIVE clean_loop(_, _, _)
\* The for loop of Project::clean (and the second loop of clean) over the
\* artifact directories that exist: remove, report a failure, go on.
clean_loop(st, root, ads) ==
    IF ads = <<>> THEN {st}
    ELSE LET ad == root \o Head(ads) IN
         IF exists(st.disk, ad)
         THEN UNION {clean_loop(n, root, Tail(ads)) : n \in Attempt(st, ad)}
         ELSE clean_loop(st, root, Tail(ads))

\* Project::clean that stops after the first artifact-directory name.
project_clean_first_name(d, p) ==
    clean_loop([disk |-> d, attempts |-> <<>>, stderr |-> <<>>],
               p.path, SubSeq(artifact_dirs(p.project_type), 1, 1))

\* Project::clean
project_clean(d, p) ==
    clean_loop([disk |-> d, attempts |-> <<>>, stderr |-> <<>>],
               p.path, artifact_dirs(p.project_type))

RECURSIVE try_for_each(_, _, _, _)
\* The parallel try_for_each of clean over the artifact directories, taken in
\* the order the pool runs them: after a failure the ones not yet started may
\* be dropped.
try_for_each(st, root, ads, failed) ==
    IF ads = <<>> THEN {st}
    ELSE LET ad == root \o Head(ads) IN
         IF ~exists(st.disk, ad) THEN try_for_each(st, root, Tail(ads), failed)
         ELSE UNION {try_for_each(n, root, Tail(ads),
                                  failed \/ Len(n.stderr) > Len(st.stderr)) :
                        n \in Attempt(st, ad)}
              \cup (IF failed THEN try_for_each(st, root, Tail(ads), TRUE) ELSE {})

\* The projects find_map_any may build for the directory: one per entry whose
\* name the classifier knows.
find_map_any(d, project_path) ==
    {Project(get_project_type(Last(e)), project_path) :
        e \in {x \in Entries(d, Resolve(d, project_path)) :
                  get_project_type(Last(x)) # None}}

\* clean(project_path): every outcome, with the value it returns.
clean(d, project_path) ==
    LET st0 == [disk |-> d, attempts |-> <<>>, stderr |-> <<>>] IN
    IF ~read_dir_ok(d, project_path)
    THEN {[st |-> st0, ret |-> "Err", found |-> NoProject]}
    ELSE IF find_map_any(d, project_path) = {}
    THEN {[st |-> st0, ret |-> "Ok", found |-> NoProject]}
    ELSE UNION {
            {[st |-> s2, ret |-> "Ok", found |-> x] :
                s2 \in UNION {clean_loop(s1, project_path, artifact_dirs(x.project_type)) :
                                s1 \in UNION {try_for_each(st0, project_path, o, FALSE) :
                                                o \in Orders(Range(artifact_dirs(x.project_type)))}}}
            : x \in find_map_any(d, project_path)}

(***************************************************************************)
(* The disks SpecClean starts from: the project at repoA, with or without  *)
(* its marker files, its artifact directories (a directory, a regular      *)
(* file or a link to a directory outside the project), a source directory, *)
(* and a directory ext beside the project.  Every file has a length of its *)
(* own, a power of two, so a sum of lengths tells which files are in it.   *)
(***************************************************************************)
ModelledTypes == {"Cargo", "SBT", "Node"}

RepoA == <<"repoA">>
Ext == <<"ext">>

FileOpts(p, n) == {NoEntries, p :> FileNode(n, FALSE), p :> FileNode(n, TRUE)}

RECURSIVE DirTrees(_, _, _)
\* The directories at p: a file f or none, a directory sub or none, down to
\* the given depth.
DirTrees(p, n, depth) ==
    {(p :> DirNode) @@ f @@ s :
        f \in FileOpts(Append(p, "f"), n),
        s \in {NoEntries} \cup
              (IF depth = 0 THEN {} ELSE DirTrees(Append(p, "sub"), 2 * n, depth - 1))}

TargetOpts ==
    LET t == Append(RepoA, "target") IN
    {NoEntries, t :> FileNode(64, FALSE), t :> LinkNode(Ext)}
        \cup DirTrees(t, 128, MaxDepth)

ProjectDirOpts ==
    LET pd == Append(RepoA, "project") IN
    {NoEntries} \cup
    {(pd :> DirNode) @@ (Append(pd, "p") :> FileNode(8, FALSE)) @@ t :
        t \in {NoEntries} \cup DirTrees(Append(pd, "target"), 16, 0)}

Src ==
    LET sd == Append(RepoA, "src") IN
    (sd :> DirNode) @@ (Append(sd, "s") :> FileNode(4, FALSE))

MarkerOpts ==
    {c @@ b : c \in {NoEntries, Append(RepoA, FILE_CARGO_TOML) :> FileNode(1, FALSE)},
              b \in {NoEntries, Append(RepoA, FILE_SBT_BUILD) :> FileNode(2, FALSE)}}

Outside == (Ext :> DirNode) @@ (Append(Ext, "e") :> FileNode(32, FALSE))

ScanIdle ==
    /\ tree = <<>>
    /\ pos = 0
    /\ success = <<>>
    /\ errs = <<>>
    /\ ended = FALSE
    /\ log = <<>>

InitClean ==
    /\ \/ disk = Outside
       \/ \E m \in MarkerOpts, t \in TargetOpts, pd \in ProjectDirOpts :
             disk = Outside @@ (RepoA :> DirNode) @@ Src @@ m @@ t @@ pd
    /\ project \in {Project(ty, RepoA) : ty \in ModelledTypes}
    /\ op = "none"
    /\ res = None
    /\ pre = disk
    /\ attempts = <<>>
    /\ stderr = <<>>
    /\ cleanRun = "none"
    /\ ScanIdle

\* project.size()
Size ==
    /\ op' = "size"
    /\ res' = size(disk, project)
    /\ pre' = disk
    /\ UNCHANGED <<disk, project, attempts, stderr, cleanRun>>
    /\ UNCHANGED scanVars

\* project.size_dirs()
SizeDirs ==
    /\ op' = "size_dirs"
    /\ \E listing \in (IF read_dir_ok(disk, project.path)
                       THEN Listings(disk, Resolve(disk, project.path))
                       ELSE {<<>>}) :
          res' = size_dirs(disk, project, listing)
    /\ pre' = disk
    /\ UNCHANGED <<disk, project, attempts, stderr, cleanRun>>
    /\ UNCHANGED scanVars

\* project.clean()
Clean ==
    /\ op' = "clean"
    /\ \E st \in project_clean(disk, project) :
          /\ disk' = st.disk
          /\ attempts' = st.attempts
          /\ stderr' = st.stderr
          /\ cleanRun' = IF st.stderr = <<>> THEN "ok" ELSE "failed"
    /\ res' = None
    /\ pre' = disk
    /\ UNCHANGED project
    /\ UNCHANGED scanVars

\* clean(project.path)
CleanPath ==
    /\ op' = "clean_path"
    /\ \E o \in clean(disk, project.path) :
          /\ disk' = o.st.disk
          /\ attempts' = o.st.attempts
          /\ stderr' = o.st.stderr
          /\ res' = [ret |-> o.ret, found |-> o.found]
    /\ pre' = disk
    /\ UNCHANGED <<project, cleanRun>>
    /\ UNCHANGED scanVars

NextClean == Size \/ SizeDirs \/ Clean \/ CleanPath

SpecClean == InitClean /\ [][NextClean]_vars

(***************************************************************************)
(* The claims about scan.                                                  *)
(***************************************************************************)
\* A directory the scan is to look into: not hidden, and listable.
OpenDir(t, d) ==
    /\ t[d].kind = "dir"
    /\ ~is_hidden(t[d].name)
    /\ t[d].readable

HasMarkerFile(t, d) ==
    \E c \in ChildrenOf(t, d) :
        t[c].kind = "file" /\ get_project_type(t[c].name) # None

HasMarkerEntry(t, d) ==
    \E c \in ChildrenOf(t, d) : get_project_type(t[c].name) # None

\* Every directory above d is open and holds no entry with a marker name.
ReachedThroughPlainDirs(t, d) ==
    \A a \in AncOrSelf(t, d) \ {d} : OpenDir(t, a) /\ ~HasMarkerEntry(t, a)

\* A project root the scan is to report.
ProjectRoot(t, d) ==
    /\ OpenDir(t, d)
    /\ HasMarkerFile(t, d)
    /\ ReachedThroughPlainDirs(t, d)

\* The returns of next() that were a Project found at directory d.
ProjectsAt(d) == {i \in 1..Len(log) : log[i].node = d /\ log[i].ret = "Ok"}

\* The returns of next() made at a directory: the directories the scan visited.
Visits == {i \in 1..Len(log) : log[i].node # 0 /\ tree[log[i].node].kind = "dir"}

\* C1: when the scan has ended, every directory that holds a marker file and
\* is reached from the root through non-hidden directories without a marker
\* has exactly one Project in the output.
C1_EveryProjectRootYieldedOnce ==
    ended =>
        \A d \in 1..Len(tree) :
            ProjectRoot(tree, d) => Cardinality(ProjectsAt(d)) = 1

\* C2: once a directory has been yielded as a project, the scan visits no
\* directory strictly below it (and so yields no Project there).
C2_NoVisitBelowProjectRoot ==
    \A i \in 1..Len(log) :
        (log[i].ret = "Ok" /\ HasMarkerFile(tree, log[i].node)) =>
            \A j \in Visits : ~StrictlyBelow(tree, log[j].node, log[i].node)

\* C3: a yielded Project has the path of the directory that holds the marker
\* and the type the classifier gives for a marker file of that directory.
C3_ProjectPathIsTheDirectory ==
    \A i \in 1..Len(log) :
        log[i].ret = "Ok" =>
            /\ log[i].project.path = PathOf(tree, log[i].node)
            /\ \E c \in ChildrenOf(tree, log[i].node) :
                  log[i].project.project_type = get_project_type(tree[c].name)

\* The directories whose listing fails where the scan is to look.
FailingDirs(t) ==
    {u \in 1..Len(t) :
        /\ t[u].kind = "dir"
        /\ ~t[u].readable
        /\ ~is_hidden(t[u].name)
        /\ ReachedThroughPlainDirs(t, u)}

\* d lies in the subtree of a sibling of u.
InSiblingSubtree(t, d, u) ==
    \E a \in AncOrSelf(t, d) : a # u /\ t[a].parent = t[u].parent /\ t[u].parent # 0

\* C4: when the scan has ended, a directory that could not be listed has one
\* error record, and every project root in a sibling subtree was yielded.
C4_ScanContinuesPastUnreadableDir ==
    ended =>
        \A u \in FailingDirs(tree) :
            /\ Cardinality({i \in 1..Len(log) :
                                log[i].node = u /\ log[i].ret = "IOError"}) = 1
            /\ \A d \in 1..Len(tree) :
                  (ProjectRoot(tree, d) /\ InSiblingSubtree(tree, d, u))
                      => Cardinality(ProjectsAt(d)) = 1

(***************************************************************************)
(* The claims about the size queries and the clean operations.             *)
(***************************************************************************)
\* The bytes of the regular files below p, each counted once.
BytesBelow(d, p) == SumLens(d, Below(d, p))

ChildDirs(d, p) == {e \in Entries(d, p) : d[e].kind = "dir"}

RECURSIVE SumFlagged(_)
\* The sizes of the entries of dirs that are flagged as artifact, added up.
SumFlagged(dirs) ==
    IF dirs = <<>> THEN 0
    ELSE (IF Head(dirs)[3] THEN Head(dirs)[2] ELSE 0) + SumFlagged(Tail(dirs))

NoRepeat(s) == \A i, j \in 1..Len(s) : i # j => s[i] # s[j]

ArtifactPathsNameDirs(d) ==
    \A ty \in ModelledTypes : \A ad \in Range(artifact_dirs(ty)) :
        exists(d, project.path \o ad) => d[Resolve(d, project.path \o ad)].kind = "dir"

Existed(ty) ==
    {project.path \o ad : ad \in {a \in Range(artifact_dirs(ty)) :
                                     exists(pre, project.path \o a)}}

\* C7: a clean attempts every artifact directory that existed, whichever of
\* them fail; a removal that failed is reported; clean(path) returns Ok.
C7_CleanContinuesPastFailure ==
    /\ op = "clean" => Existed(project.project_type) \subseteq Range(attempts)
    /\ (op = "clean_path" /\ res.found # NoProject) =>
          Existed(res.found.project_type) \subseteq Range(attempts)
    /\ (op = "clean_path" /\ read_dir_ok(pre, project.path)) => res.ret = "Ok"
    /\ op \in {"clean", "clean_path"} =>
          \A a \in Range(attempts) : exists(disk, a) => a \in Range(stderr)

\* A Project::clean whose first removal failed and whose second was made
\* and succeeded.
C7_Witness ==
    /\ op = "clean"
    /\ Len(attempts) = 2
    /\ stderr = <<attempts[1]>>
    /\ exists(disk, attempts[1])
    /\ ~exists(disk, attempts[2])
    /\ exists(pre, attempts[2])

\* C8: within one clean no artifact directory is attempted twice and no
\* failure is reported twice (stated for artifact paths that name directories).
C8_NoRetry ==
    (op \in {"clean", "clean_path"} /\ ArtifactPathsNameDirs(pre))
        => (NoRepeat(attempts) /\ NoRepeat(stderr))

\* Whether path q is at or below an artifact directory of the project.
InArtifactDir(q) ==
    \E ad \in Range(artifact_dirs(project.project_type)) :
        IsPrefix(project.path \o ad, q)

C10_SizeEqualsArtifactSize ==
    (op = "size_dirs" /\ ArtifactPathsNameDirs(disk))
        => res.artifact_size = size(disk, project)

====
